---- MODULE Spec2Model ----
(***************************************************************************)
(* Health and Prosperity Index pipeline (src/app.py): fetch_data,          *)
(* normalize_column, calculate_index, update_data, schedule_task,          *)
(* display_data and the process entry point, with the SQL table            *)
(* index_data as the shared resource between the pipeline and the reader.  *)
(***************************************************************************)
EXTENDS Integers, Sequences, FiniteSets, TLC

(***************************************************************************)
(* Values.  A cell of a DataFrame or of a SQL row is a record of one       *)
(* shape, so that any two cells can be compared:                           *)
(*   k = "num"  the rational n/d (d > 0, lowest terms)                     *)
(*   k = "str"  the text s                                                 *)
(*   k = "nan"  pandas' missing value NaN                                  *)
(*   k = "null" SQL NULL                                                   *)
(***************************************************************************)
RECURSIVE GCD(_, _)
GCD(a, b) == IF b = 0 THEN a ELSE GCD(b, a % b)

Frac(n, d) ==
    LET g == IF n = 0 THEN d ELSE GCD(n, d)
    IN  [k |-> "num", n |-> n \div g, d |-> d \div g, s |-> ""]

Num(x) == Frac(x, 1)
Str(t) == [k |-> "str", n |-> 0, d |-> 1, s |-> t]
NaN == [k |-> "nan", n |-> 0, d |-> 1, s |-> ""]
NULL == [k |-> "null", n |-> 0, d |-> 1, s |-> ""]

IsNum(c) == c.k = "num"
IsNaN(c) == c.k = "nan"

\* float arithmetic on cells; NaN is absorbing, x / 0 for x = 0 is NaN
FracLeq(a, b) == a.n * b.d <= b.n * a.d
FracAdd(a, b) ==
    IF IsNaN(a) \/ IsNaN(b) THEN NaN ELSE Frac(a.n * b.d + b.n * a.d, a.d * b.d)
FracSub(a, b) ==
    IF IsNaN(a) \/ IsNaN(b) THEN NaN ELSE Frac(a.n * b.d - b.n * a.d, a.d * b.d)
FracMul(a, b) ==
    IF IsNaN(a) \/ IsNaN(b) THEN NaN ELSE Frac(a.n * b.n, a.d * b.d)
FracDiv(a, b) ==
    IF IsNaN(a) \/ IsNaN(b) \/ b.n = 0 THEN NaN ELSE Frac(a.n * b.d, a.d * b.n)

(***************************************************************************)
(* DataFrames: a set of column names and a sequence of rows, each row a    *)
(* function from the columns to cells.                                     *)
(***************************************************************************)
EmptyDataFrame == [columns |-> {}, rows |-> <<>>]

\* pd.DataFrame(data['data']): the columns are the union of the records'
\* keys; a record that lacks a key gets NaN in that column
DataFrame(data) ==
    LET cols == UNION {DOMAIN data[i] : i \in DOMAIN data}
    IN  [columns |-> cols,
         rows |-> [i \in DOMAIN data |->
                     [c \in cols |-> IF c \in DOMAIN data[i] THEN data[i][c] ELSE NaN]]]

\* a test that takes every frame for a non-empty one
IsEmptyNever(df) == FALSE

\* df.empty: an axis of length 0
IsEmpty(df) == df.columns = {} \/ DOMAIN df.rows = {}

required_columns ==
    <<"life_expectancy", "median_household_income", "unemployment_rate",
      "obesity_rate", "poverty_rate", "access_to_healthcare">>

NormName(c) ==
    CASE c = "life_expectancy" -> "life_expectancy_norm"
      [] c = "median_household_income" -> "median_household_income_norm"
      [] c = "unemployment_rate" -> "unemployment_rate_norm"
      [] c = "obesity_rate" -> "obesity_rate_norm"
      [] c = "poverty_rate" -> "poverty_rate_norm"
      [] c = "access_to_healthcare" -> "access_to_healthcare_norm"

\* the weight calculate_index gives to each normalized column
Weight(c) ==
    CASE c = "life_expectancy" -> Frac(20, 100)
      [] c = "median_household_income" -> Frac(20, 100)
      [] c = "unemployment_rate" -> Frac(20, 100)
      [] c = "obesity_rate" -> Frac(15, 100)
      [] c = "poverty_rate" -> Frac(5, 100)
      [] c = "access_to_healthcare" -> Frac(20, 100)

\* the column check of fetch_data: every required name is a column of df
HasRequiredColumns(df) ==
    \A i \in DOMAIN required_columns : required_columns[i] \in df.columns

(***************************************************************************)
(* normalize_column and calculate_index.  An exception is modelled by      *)
(* ok = FALSE in the result of the step that raises.                       *)
(***************************************************************************)
ColumnCells(df, c) == {df.rows[i][c] : i \in DOMAIN df.rows}

\* Series.min() / Series.max(): NaN cells are skipped; NaN when none is left
ColMin(df, c) ==
    LET nums == {x \in ColumnCells(df, c) : IsNum(x)}
    IN  IF nums = {} THEN NaN
        ELSE CHOOSE m \in nums : \A x \in nums : FracLeq(m, x)

ColMax(df, c) ==
    LET nums == {x \in ColumnCells(df, c) : IsNum(x)}
    IN  IF nums = {} THEN NaN
        ELSE CHOOSE m \in nums : \A x \in nums : FracLeq(x, m)

\* the scaling of one cell, (x - min_val) / (max_val - min_val)
MinMaxScale(x, min_val, max_val) == FracDiv(FracSub(x, min_val), FracSub(max_val, min_val))

\* normalize_column: KeyError when the column is absent, TypeError when it
\* holds text; otherwise df with the column <name>_norm added
normalize_column(df, column_name) ==
    IF column_name \notin df.columns
          \/ \E x \in ColumnCells(df, column_name) : x.k = "str"
    THEN [ok |-> FALSE, df |-> df]
    ELSE LET min_val == ColMin(df, column_name)
             max_val == ColMax(df, column_name)
             cols == df.columns \cup {NormName(column_name)}
         IN  [ok |-> TRUE,
              df |-> [columns |-> cols,
                      rows |-> [i \in DOMAIN df.rows |->
                          [c \in cols |->
                              IF c = NormName(column_name)
                              THEN MinMaxScale(df.rows[i][column_name], min_val, max_val)
                              ELSE df.rows[i][c]]]]]

\* the six calls of normalize_column, in the order of the source
RECURSIVE NormalizeFrom(_, _)
NormalizeFrom(r, i) ==
    IF i > Len(required_columns) \/ ~r.ok THEN r
    ELSE NormalizeFrom(normalize_column(r.df, required_columns[i]), i + 1)

\* the weighted sum of one row, added left to right
RECURSIVE WeightedSum(_, _)
WeightedSum(row, i) ==
    LET term == FracMul(row[NormName(required_columns[i])], Weight(required_columns[i]))
    IN  IF i = 1 THEN term ELSE FracAdd(WeightedSum(row, i - 1), term)

calculate_index(df) ==
    LET r == NormalizeFrom([ok |-> TRUE, df |-> df], 1)
    IN  IF ~r.ok THEN EmptyDataFrame
        ELSE IF ~(\A i \in DOMAIN required_columns :
                     NormName(required_columns[i]) \in r.df.columns)
        THEN EmptyDataFrame
        ELSE LET cols == r.df.columns \cup {"index"}
             IN  [columns |-> cols,
                  rows |-> [i \in DOMAIN r.df.rows |->
                      [c \in cols |->
                          IF c = "index"
                          THEN WeightedSum(r.df.rows[i], Len(required_columns))
                          ELSE r.df.rows[i][c]]]]

(***************************************************************************)
(* The SQL table index_data.  to_sql(..., index=False) writes the columns  *)
(* and rows of the frame, NaN as NULL; read_sql_table reads NULL as NaN.   *)
(***************************************************************************)
NoTable == [exists |-> FALSE, columns |-> {}, rows |-> <<>>]

ToSqlCell(x) == IF IsNaN(x) THEN NULL ELSE x

\* a read that leaves NULL as it is
FromSqlCellKeepsNull(x) == x

FromSqlCell(x) == IF x.k = "null" THEN NaN ELSE x

\* the table that CREATE TABLE makes for df: its columns, no rows
CreatedTable(df) == [exists |-> TRUE, columns |-> df.columns, rows |-> <<>>]

\* the table after all rows of df are inserted
InsertedTable(df) ==
    [exists |-> TRUE, columns |-> df.columns,
     rows |-> [i \in DOMAIN df.rows |-> [c \in df.columns |-> ToSqlCell(df.rows[i][c])]]]

\* INSERT of the rows of df into the table t
InsertInto(t, df) ==
    [t EXCEPT !.rows = @ \o [i \in DOMAIN df.rows |->
                                [c \in df.columns |-> ToSqlCell(df.rows[i][c])]]]

\* pd.read_sql_table on an existing table
read_sql_table(t) ==
    [columns |-> t.columns,
     rows |-> [i \in DOMAIN t.rows |-> [c \in t.columns |-> FromSqlCell(t.rows[i][c])]]]

(***************************************************************************)
(* fetch_data.  A response of the source is one of                         *)
(*   timeout, connection_error  requests.get raises                        *)
(*   http_error                 raise_for_status raises                    *)
(*   not_json                   response.json() raises                     *)
(*   no_data_key                the JSON body has no key 'data'            *)
(*   ok                         the JSON body holds the records under      *)
(*                              'data'                                     *)
(* response.json() raises requests' JSONDecodeError, a RequestException,   *)
(* or a plain ValueError, by the version of requests: json_is_request_exc. *)
(***************************************************************************)
Response(kind, data) == [kind |-> kind, data |-> data]

\* what leaves the try block uncaught: only RequestException is handled
RaisesUncaught(resp, json_is_request_exc) ==
    \/ resp.kind = "no_data_key"
    \/ resp.kind = "not_json" /\ ~json_is_request_exc

RaisesRequestException(resp, json_is_request_exc) ==
    \/ resp.kind \in {"timeout", "connection_error", "http_error"}
    \/ resp.kind = "not_json" /\ json_is_request_exc

fetch_data(resp, json_is_request_exc) ==
    IF RaisesRequestException(resp, json_is_request_exc)
    THEN [raised |-> FALSE, df |-> EmptyDataFrame, log |-> {"error: fetching data"}]
    ELSE IF RaisesUncaught(resp, json_is_request_exc)
    THEN [raised |-> TRUE, df |-> EmptyDataFrame, log |-> {}]
    ELSE LET df == DataFrame(resp.data)
         IN  IF ~HasRequiredColumns(df)
             THEN [raised |-> FALSE, df |-> EmptyDataFrame,
                   log |-> {"error: missing required columns"}]
             ELSE [raised |-> FALSE, df |-> df,
                   log |-> IF IsEmpty(df) THEN {"warning: no data"} ELSE {}]

(***************************************************************************)
(* Sample payloads of the source.                                          *)
(***************************************************************************)
Record(state, le, mhi, ur, ob, pr, ah) ==
    [state |-> Str(state), life_expectancy |-> Num(le),
     median_household_income |-> Num(mhi), unemployment_rate |-> Num(ur),
     obesity_rate |-> Num(ob), poverty_rate |-> Num(pr),
     access_to_healthcare |-> Num(ah)]

Without(rec, key) == [c \in (DOMAIN rec) \ {key} |-> rec[c]]

RecA == Record("A", 70, 50, 4, 30, 10, 80)
RecB == Record("B", 80, 60, 6, 35, 12, 90)
RecC == Record("C", 75, 50, 5, 30, 11, 85)

Payloads ==
    { <<>>,
      <<RecA>>,
      <<RecA, RecB>>,
      <<RecA, RecB, RecC>>,
      <<RecA, RecB, Without(RecC, "obesity_rate")>>,
      <<Without(RecA, "obesity_rate"), Without(RecB, "obesity_rate")>>,
      <<Without(RecA, "state"), Without(RecB, "state")>>,
      <<RecA, [RecB EXCEPT !.life_expectancy = Str("n/a")]>> }

Responses ==
    {Response(k, <<>>) : k \in {"timeout", "connection_error", "http_error",
                                "not_json", "no_data_key"}}
      \cup {Response("ok", d) : d \in Payloads}

\* a dataset an earlier run of the process may have left in the database
PriorTable == InsertedTable(calculate_index(DataFrame(<<RecB, RecC>>)))

(***************************************************************************)
(* The process.                                                            *)
(***************************************************************************)
\* the scheduled triggers a behaviour may hold
MaxTriggers == 2

\* retries of display_data
retries == 3

VARIABLES
    table,      \* the table index_data as committed in the database
    atomic,     \* the database and driver run to_sql's statements in one transaction
    mainPc,     \* the foreground path: start, update, schedule, display, done, crashed
    sched,      \* the scheduled job: unarmed, Idle, Running
    triggers,   \* the scheduled triggers so far
    w,          \* the running (or last) call of update_data
    saved,      \* the frame of the last to_sql that succeeded, until a later to_sql starts
    r,          \* display_data
    calc        \* one evaluation of the index expression in double precision

vars == <<table, atomic, mainPc, sched, triggers, w, saved, r, calc>>

NoResponse == Response("none", <<>>)
NoSaved == [some |-> FALSE, df |-> EmptyDataFrame]
\* no evaluation of the index expression under way
NoCalc == [done |-> FALSE, norms |-> <<>>, index |-> [hi |-> 0, lo |-> 0]]

Init ==
    /\ table \in {NoTable, PriorTable}
    /\ atomic \in BOOLEAN
    /\ mainPc = "start"
    /\ sched = "unarmed"
    /\ triggers = 0
    /\ w = [pc |-> "idle", owner |-> "none", resp |-> NoResponse,
            fetched |-> EmptyDataFrame, df |-> EmptyDataFrame, log |-> {},
            tableAtStart |-> table, staged |-> table, result |-> "none",
            toSqlCalls |-> 0, trig |-> 0, instances |-> 0]
    /\ saved = NoSaved
    /\ r = [attempt |-> 0, excs |-> <<>>, reads |-> 0, loaded |-> EmptyDataFrame,
            shown |-> FALSE, chart |-> <<>>, sleeps |-> 0, errors |-> 0,
            surfaced |-> "none", noTable |-> 0]
    /\ calc = NoCalc

\* update_data is entered: fetch_data sends its request.  trig is the number
\* of triggers fired up to this entry, instances the calls of update_data
\* now executing.
StartCycle(owner, trig) ==
    w' = [pc |-> "request", owner |-> owner, resp |-> NoResponse,
          fetched |-> EmptyDataFrame, df |-> EmptyDataFrame, log |-> {},
          tableAtStart |-> table, staged |-> table, result |-> "running",
          toSqlCalls |-> 0, trig |-> trig, instances |-> w.instances + 1]

\* update_data returns or raises.  In the foreground an exception ends the
\* process before schedule_task; in the scheduler's thread the executor logs
\* it and the job stays scheduled.
Finish(w1, result) ==
    /\ w' = [w1 EXCEPT !.pc = "idle", !.result = result, !.instances = @ - 1]
    /\ IF w1.owner = "main"
       THEN /\ mainPc' = IF result = "raised" THEN "crashed" ELSE "schedule"
            /\ sched' = sched
       ELSE /\ sched' = "Idle"
            /\ mainPc' = mainPc

\* update_data(), first statement of __main__
MainUpdate ==
    /\ mainPc = "start"
    /\ mainPc' = "update"
    /\ StartCycle("main", 0)
    /\ UNCHANGED <<table, atomic, sched, triggers, saved, r, calc>>

\* a scheduler whose timer waits for the running job
TimerWaitsForJob(s) == s = "Idle"

\* BackgroundScheduler: the timer runs in the scheduler's own thread, the
\* job in an executor thread, so the interval elapses while a job runs
TimerRuns(s) == s # "unarmed"

\* a job store that never refuses a run
MaxInstancesNever(s) == FALSE

\* add_job without max_instances: one running instance of the job at most
MaxInstancesReached(s) == s = "Running"

\* the interval trigger fires and no instance of the job is running
Trigger ==
    /\ TimerRuns(sched)
    /\ ~MaxInstancesReached(sched)
    /\ triggers < MaxTriggers
    /\ sched' = "Running"
    /\ triggers' = triggers + 1
    /\ StartCycle("job", triggers + 1)
    /\ UNCHANGED <<table, atomic, mainPc, saved, r, calc>>

\* the interval trigger fires while the job still runs: the run is skipped
\* (the job is added with the default of one running instance)
TriggerSkipped ==
    /\ TimerRuns(sched)
    /\ MaxInstancesReached(sched)
    /\ triggers < MaxTriggers
    /\ triggers' = triggers + 1
    /\ UNCHANGED <<table, atomic, mainPc, sched, w, saved, r, calc>>

\* the two tests "if not df.empty" of update_data
ShouldCalculate(df) == ~IsEmpty(df)

\* update_data without its second test
ShouldSaveAlways(df) == TRUE

ShouldSave(df) == ~IsEmpty(df)

\* if_exists='append': an existing table is kept and inserted into
FirstSqlStepAppend(exists) == IF exists THEN "insert" ELSE "create"

\* if_exists='replace': an existing table is dropped, then created anew
FirstSqlStep(exists) == IF exists THEN "drop" ELSE "create"

\* the response arrives: the rest of fetch_data, calculate_index, and the
\* entry into to_sql
FetchReturns ==
    /\ w.pc = "request"
    /\ \E resp \in Responses, json_is_request_exc \in BOOLEAN :
         LET f == fetch_data(resp, json_is_request_exc)
             w1 == [w EXCEPT !.resp = resp, !.fetched = f.df, !.log = f.log]
             df == calculate_index(f.df)
             w2 == [w1 EXCEPT !.df = df,
                              !.log = IF IsEmpty(df)
                                      THEN @ \cup {"error: calculating index"} ELSE @]
         IN  IF f.raised
             THEN Finish(w1, "raised") /\ UNCHANGED saved
             ELSE IF ~ShouldCalculate(f.df)
             THEN Finish(w1, "fetch_empty") /\ UNCHANGED saved
             ELSE IF ~ShouldSave(df)
             THEN Finish(w2, "calc_empty") /\ UNCHANGED saved
             ELSE /\ w' = [w2 EXCEPT !.pc = FirstSqlStep(table.exists),
                                     !.toSqlCalls = @ + 1, !.staged = table]
                  /\ saved' = NoSaved
                  /\ UNCHANGED <<mainPc, sched>>
    /\ UNCHANGED <<table, atomic, triggers, r, calc>>

\* a statement of to_sql takes effect: at once when each statement commits
\* by itself, in the transaction's own view otherwise
Publish(t) ==
    IF atomic THEN table' = table ELSE table' = t

\* if_exists='replace': DROP TABLE
SqlDrop ==
    /\ w.pc = "drop"
    /\ Publish(NoTable)
    /\ w' = [w EXCEPT !.pc = "create", !.staged = NoTable]
    /\ UNCHANGED <<atomic, mainPc, sched, triggers, saved, r, calc>>

\* CREATE TABLE
SqlCreate ==
    /\ w.pc = "create"
    /\ Publish(CreatedTable(w.df))
    /\ w' = [w EXCEPT !.pc = "insert", !.staged = CreatedTable(w.df)]
    /\ UNCHANGED <<atomic, mainPc, sched, triggers, saved, r, calc>>

\* INSERT of the rows and commit; update_data logs and returns
SqlInsert ==
    /\ w.pc = "insert"
    /\ table' = InsertInto(w.staged, w.df)
    /\ saved' = [some |-> TRUE, df |-> w.df]
    /\ Finish([w EXCEPT !.staged = InsertInto(w.staged, w.df),
                        !.log = @ \cup {"info: saved"}], "saved")
    /\ UNCHANGED <<atomic, triggers, r, calc>>

\* a statement of to_sql raises: a transaction is rolled back, statements
\* already committed stay; update_data logs the error and returns
SqlFail ==
    /\ w.pc \in {"drop", "create", "insert"}
    /\ table' = table
    /\ Finish([w EXCEPT !.staged = table, !.log = @ \cup {"error: saving"}],
              "write_failed")
    /\ UNCHANGED <<atomic, triggers, saved, r, calc>>

\* an entry point that arms the job before the first update_data
schedule_task_first ==
    /\ mainPc = "start"
    /\ sched = "unarmed"
    /\ sched' = "Idle"
    /\ UNCHANGED <<table, atomic, mainPc, triggers, w, saved, r, calc>>

\* schedule_task(): the job is added and the scheduler started
schedule_task ==
    /\ mainPc = "schedule"
    /\ mainPc' = "display"
    /\ sched' = "Idle"
    /\ UNCHANGED <<table, atomic, triggers, w, saved, r, calc>>

\* df.set_index('state')['index'], the series given to st.bar_chart
BarChart(df) ==
    [i \in DOMAIN df.rows |-> <<df.rows[i]["state"], df.rows[i]["index"]>>]

\* the exception one attempt of display_data ends with, "none" when it
\* reaches break
AttemptException(t, transient) ==
    IF transient THEN "OperationalError"
    ELSE IF ~t.exists THEN "TableNotFound"
    ELSE IF "state" \notin t.columns \/ "index" \notin t.columns THEN "KeyError"
    ELSE "none"

\* a test that takes the last attempt for one more to retry
ShouldSleepOffByOne(attempt) == attempt < retries

\* the test of the except branch: sleep and retry, or st.error
ShouldSleep(attempt) == attempt < retries - 1

\* an attempt reads the table, renders the chart and leaves the loop
DisplaySucceeds ==
    /\ mainPc = "display"
    /\ AttemptException(table, FALSE) = "none"
    /\ r' = [r EXCEPT !.reads = @ + 1,
                      !.loaded = read_sql_table(table),
                      !.shown = TRUE,
                      !.chart = BarChart(read_sql_table(table))]
    /\ mainPc' = "done"
    /\ UNCHANGED <<table, atomic, sched, triggers, w, saved, calc>>

\* an attempt raises: the error is logged, then sleep, or st.error on the
\* last attempt
DisplayFails ==
    /\ mainPc = "display"
    /\ \E transient \in BOOLEAN :
         LET e == AttemptException(table, transient)
         IN  /\ e # "none"
             /\ r' = [r EXCEPT
                        !.excs = Append(@, e),
                        !.reads = IF e = "KeyError" THEN @ + 1 ELSE @,
                        !.loaded = IF e = "KeyError" THEN read_sql_table(table) ELSE @,
                        !.noTable = IF table.exists THEN @ ELSE @ + 1,
                        !.sleeps = IF ShouldSleep(r.attempt) THEN @ + 1 ELSE @,
                        !.errors = IF ShouldSleep(r.attempt) THEN @ ELSE @ + 1,
                        !.surfaced = IF ShouldSleep(r.attempt) THEN @ ELSE e,
                        !.attempt = @ + 1]
    /\ mainPc' = IF r.attempt + 1 < retries THEN "display" ELSE "done"
    /\ UNCHANGED <<table, atomic, sched, triggers, w, saved, calc>>

Next ==
    \/ MainUpdate
    \/ Trigger
    \/ TriggerSkipped
    \/ FetchReturns
    \/ SqlDrop
    \/ SqlCreate
    \/ SqlInsert
    \/ SqlFail
    \/ schedule_task
    \/ DisplaySucceeds
    \/ DisplayFails

Spec == Init /\ [][Next]_vars

\* The scheduler's timer runs in a thread of its own and display_data in the
\* main thread: neither waits for a job, so each takes its step when it can.
\* requests.get is called without a timeout: nothing makes a response arrive.
\* The statements of to_sql commit together here: which table a reader may
\* meet between them is the subject of Spec, not of what eventually happens.
InitFair == Init /\ atomic

SpecFair ==
    /\ InitFair /\ [][Next]_vars
    /\ WF_vars(Trigger \/ TriggerSkipped)
    /\ WF_vars(DisplaySucceeds \/ DisplayFails)

(***************************************************************************)
(* The index expression in double precision.  calculate_index evaluates    *)
(*   n1 * 0.2 + n2 * 0.2 + n3 * 0.2 + n4 * 0.15 + n5 * 0.05 + n6 * 0.2     *)
(* on float64 columns, left to right, each operation rounded to the        *)
(* nearest double, ties to even.  A double in [0, 2) is held as the pair   *)
(* hi, lo with value (hi * 2^29 + lo) * 2^-58; a double of this range has  *)
(* a 53-bit significand, so at most its lowest 6 bits of lo are rounded    *)
(* away.  A norm is given in halves: h stands for h / 2.                   *)
(***************************************************************************)
LimbBase == 2^29

Double(hi, lo) == [hi |-> hi, lo |-> lo]

FloatZero == Double(0, 0)
FloatOne == Double(LimbBase, 0)

\* the halves a norm is drawn from: 0, 1/2, 1
NormHalves == {0, 1, 2}

\* the doubles of the literals 0.2, 0.15 and 0.05
FloatWeight(c) ==
    CASE c = "life_expectancy" -> Double(107374182, 214748368)
      [] c = "median_household_income" -> Double(107374182, 214748368)
      [] c = "unemployment_rate" -> Double(107374182, 214748368)
      [] c = "obesity_rate" -> Double(80530636, 429496728)
      [] c = "poverty_rate" -> Double(26843545, 322122548)
      [] c = "access_to_healthcare" -> Double(107374182, 214748368)

FloatLeq(a, b) == a.hi < b.hi \/ (a.hi = b.hi /\ a.lo <= b.lo)

\* the number of low bits that do not fit the significand
RECURSIVE DroppedBits(_, _)
DroppedBits(hi, k) == IF hi < 2^(24 + k) THEN k ELSE DroppedBits(hi, k + 1)

\* round to nearest, ties to even
RoundToDouble(hi, lo) ==
    LET p == 2^DroppedBits(hi, 0)
        q == lo \div p
        rem == lo % p
        up == IF 2 * rem > p \/ (2 * rem = p /\ p > 1 /\ q % 2 = 1) THEN 1 ELSE 0
        lo2 == (q + up) * p
    IN  IF lo2 = LimbBase THEN Double(hi + 1, 0) ELSE Double(hi, lo2)

FloatAdd(a, b) ==
    LET lo == a.lo + b.lo
    IN  RoundToDouble(a.hi + b.hi + (lo \div LimbBase), lo % LimbBase)

\* h / 2 times a weight: exact, the weights being even multiples of the unit
FloatMulHalves(h, x) ==
    CASE h = 0 -> FloatZero
      [] h = 1 -> Double(x.hi \div 2, (x.lo + (x.hi % 2) * LimbBase) \div 2)
      [] h = 2 -> x

\* df['index'] of one row, from its six norms in the order of the expression
RECURSIVE FloatIndex(_, _)
FloatIndex(norms, i) ==
    LET term == FloatMulHalves(norms[i], FloatWeight(required_columns[i]))
    IN  IF i = 1 THEN term ELSE FloatAdd(FloatIndex(norms, i - 1), term)

\* the index expression is evaluated for six norms of [0, 1]; the process
\* itself does not run
InitIndex ==
    /\ table = NoTable
    /\ atomic = TRUE
    /\ mainPc = "start"
    /\ sched = "unarmed"
    /\ triggers = 0
    /\ w = [pc |-> "idle", owner |-> "none", resp |-> NoResponse,
            fetched |-> EmptyDataFrame, df |-> EmptyDataFrame, log |-> {},
            tableAtStart |-> NoTable, staged |-> NoTable, result |-> "none",
            toSqlCalls |-> 0, trig |-> 0, instances |-> 0]
    /\ saved = NoSaved
    /\ r = [attempt |-> 0, excs |-> <<>>, reads |-> 0, loaded |-> EmptyDataFrame,
            shown |-> FALSE, chart |-> <<>>, sleeps |-> 0, errors |-> 0,
            surfaced |-> "none", noTable |-> 0]
    /\ calc \in {[done |-> FALSE, norms |-> n, index |-> FloatZero] :
                    n \in [DOMAIN required_columns -> NormHalves]}

ComputeIndex ==
    /\ ~calc.done
    /\ calc' = [calc EXCEPT !.done = TRUE,
                            !.index = FloatIndex(calc.norms, Len(required_columns))]
    /\ UNCHANGED <<table, atomic, mainPc, sched, triggers, w, saved, r>>

SpecIndex == InitIndex /\ [][ComputeIndex]_vars

(***************************************************************************)
(* Properties.                                                             *)
(***************************************************************************)
CycleOver == w.pc = "idle" /\ w.result \notin {"none", "running"}

Writing == w.pc \in {"drop", "create", "insert"}

\* the frame holds no record
NoRows(df) == DOMAIN df.rows = {}

\* the step is an attempt of display_data whose read_sql_table returned
ReadReturns == r'.reads = r.reads + 1

FailedResponses ==
    {"timeout", "connection_error", "http_error", "not_json", "no_data_key"}

\* a record of the batch lacks a required indicator field
LacksRequiredField(data) ==
    \E i \in DOMAIN data : \E j \in DOMAIN required_columns :
        required_columns[j] \notin DOMAIN data[i]

\* the series of the table's rows, region key and index of each
TableChart(t) ==
    [i \in DOMAIN t.rows |->
        <<FromSqlCell(t.rows[i]["state"]), FromSqlCell(t.rows[i]["index"])>>]

\* C1: a cycle whose fetch gave the empty result (zero records included)
\* calls to_sql never and leaves the table as it was when the cycle began,
\* and a read that returns after it returns that earlier dataset.
C1_EmptyFetchWritesNothing ==
    /\ []((CycleOver /\ w.result # "raised" /\ NoRows(w.fetched))
            => (table = w.tableAtStart /\ w.toSqlCalls = 0))
    /\ [][(CycleOver /\ w.result # "raised" /\ NoRows(w.fetched) /\ ReadReturns)
            => r'.loaded = read_sql_table(w.tableAtStart)]_vars

\* the first run got zero records, the earlier dataset is still the table,
\* and display_data then loaded it
C1_Witness ==
    /\ CycleOver /\ w.owner = "main" /\ triggers = 0
    /\ w.resp = Response("ok", <<>>)
    /\ table = PriorTable
    /\ mainPc = "done" /\ r.shown /\ r.loaded = read_sql_table(PriorTable)

\* C2: a batch in which some record lacks a required indicator field is
\* rejected whole: fetch_data returns the empty result and the table is
\* not touched in that cycle.
C2_PartialRecordRejected ==
    (w.resp.kind = "ok" /\ LacksRequiredField(w.resp.data))
        => (IsEmpty(w.fetched) /\ table = w.tableAtStart)

\* C3: on a transport failure or a body that is not the record list under
\* 'data', fetch_data raises nothing and returns the empty result with the
\* cause logged.
C3_FetchNeverRaises ==
    w.resp.kind \in FailedResponses
        => (w.result # "raised" /\ NoRows(w.fetched) /\ w.log # {})

\* C4: display_data shows the chart of the table as it is at the attempt
\* that succeeds, with no st.error, when fewer than retries attempts
\* failed; when all retries attempts failed it shows no chart and calls
\* st.error exactly once.
C4_LoadRetry ==
    /\ [](/\ r.shown => (Len(r.excs) < retries /\ r.errors = 0)
          /\ Len(r.excs) < retries => r.errors = 0
          /\ Len(r.excs) = retries => (~r.shown /\ r.errors = 1 /\ mainPc = "done")
          /\ mainPc = "done" => (r.shown \/ r.errors = 1))
    /\ [][(~r.shown /\ r'.shown) => r'.chart = TableChart(table)]_vars

\* two attempts failed transiently and the third showed the table
C4_Witness ==
    /\ mainPc = "done" /\ r.shown
    /\ r.excs = <<"OperationalError", "OperationalError">>
    /\ r.chart = TableChart(PriorTable)

\* C5: a to_sql that fails is not called again in the cycle, and the
\* dataset stored before the cycle is still the table.
C5_FailedWriteKeepsLastGood ==
    (CycleOver /\ w.result = "write_failed")
        => (w.toSqlCalls = 1 /\ (w.tableAtStart.exists => table = w.tableAtStart))

\* C6: a read that returns while to_sql is replacing the table returns the
\* whole old dataset or the whole new one.
C6_ReadOldOrNew ==
    [][(Writing /\ ReadReturns)
         => \/ w.tableAtStart.exists /\ r'.loaded = read_sql_table(w.tableAtStart)
            \/ r'.loaded = read_sql_table(InsertedTable(w.df))]_vars

\* C7: while the frame of the last successful to_sql is current (no later
\* to_sql has started), a read that returns returns that frame.
C7_RoundTrip ==
    [][(saved.some /\ ReadReturns) => r'.loaded = saved.df]_vars

\* the first run saved a frame holding a NaN index, the first attempt of
\* display_data failed transiently and the second loaded the frame
C7_Witness ==
    /\ saved.some /\ w.owner = "main" /\ triggers = 0
    /\ w.resp = Response("ok", <<RecA>>)
    /\ mainPc = "done" /\ r.excs = <<"OperationalError">>
    /\ r.reads = 1 /\ r.loaded = saved.df

\* C8: after every cycle, whatever its outcome, the scheduled job is Idle
\* (or is about to be armed, after the first run), so that a later trigger
\* runs the pipeline again.
C8_CycleReturnsToIdle ==
    CycleOver => (sched = "Idle" \/ (sched = "unarmed" /\ mainPc = "schedule"))

\* C9: the table exists when display_data makes its first attempt.
C9_DatasetAtFirstLoad ==
    (mainPc = "display" /\ r.attempt = 0) => table.exists

\* C10: display_data ends with the table-not-found outcome exactly when its
\* attempts found no table, so that this outcome is told apart from a
\* transient failure that exhausted the retries.
C10_NotFoundDistinct ==
    (mainPc = "done" /\ r.errors = 1)
        => ((r.noTable = retries) <=> (r.surfaced = "TableNotFound"))

\* C11: a fetch that succeeds with zero records is logged as the "no data"
\* warning and as nothing else, and the cycle ends without a write.
C11_EmptyBatchIsWarning ==
    (w.resp.kind = "ok" /\ DOMAIN w.resp.data = {})
        => (w.log = {"warning: no data"} /\ w.toSqlCalls = 0 /\ table = w.tableAtStart)

\* C13: when a cycle has saved, the table holds one row for each record of
\* that cycle's batch, in order and with the record's values, and no other
\* row.
C13_WhollyReplaced ==
    (CycleOver /\ w.result = "saved")
        => /\ DOMAIN table.rows = DOMAIN w.resp.data
           /\ \A i \in DOMAIN w.resp.data : \A c \in DOMAIN w.resp.data[i] :
                 table.rows[i][c] = w.resp.data[i][c]

\* a cycle that began with the two rows of the earlier dataset saved its
\* batch of one record: the table holds that one row
C13_Witness ==
    /\ CycleOver /\ w.result = "saved"
    /\ w.tableAtStart = PriorTable
    /\ w.resp = Response("ok", <<RecA>>)
    /\ DOMAIN table.rows = {1}

\* the numeric cells of a column of df
Numbers(df, c) == {x \in {df.rows[i][c] : i \in DOMAIN df.rows} : x.k = "num"}

\* C15: in the frame calculate_index returns, for each indicator column
\* whose batch maximum exceeds its minimum, every record's _norm value is a
\* number of [0, 1] equal to (x - min) / (max - min): 1 at the maximum and
\* 0 at the minimum.
C15_NormalizedInUnitInterval ==
    ~IsEmpty(w.df) =>
        \A j \in DOMAIN required_columns :
            LET c == required_columns[j]
                nums == Numbers(w.fetched, c)
            IN  \A mn \in nums, mx \in nums :
                    ((\A x \in nums : FracLeq(mn, x) /\ FracLeq(x, mx)) /\ mn # mx)
                        => \A i \in DOMAIN w.df.rows :
                             LET x == w.fetched.rows[i][c]
                                 n == w.df.rows[i][NormName(c)]
                             IN  /\ n.k = "num"
                                 /\ FracLeq(Num(0), n) /\ FracLeq(n, Num(1))
                                 /\ FracMul(n, FracSub(mx, mn)) = FracSub(x, mn)
                                 /\ (x = mx => n = Num(1))
                                 /\ (x = mn => n = Num(0))

\* C16: the first run of update_data is over before the job is armed, the
\* job is armed before display_data makes an attempt, and only an armed job
\* starts a cycle.
C16_StartOrder ==
    /\ mainPc \in {"start", "update"}
          => (sched = "unarmed" /\ r.attempt = 0 /\ r.reads = 0)
    /\ sched # "unarmed" => mainPc \in {"display", "done"}
    /\ (r.attempt > 0 \/ r.reads > 0) => sched # "unarmed"
    /\ w.owner = "job" => mainPc \in {"display", "done"}
    /\ mainPc = "update" <=> (w.owner = "main" /\ w.pc # "idle")
    /\ mainPc = "schedule" => (w.owner = "main" /\ CycleOver)

\* the first run ended without data, then the job was armed, then
\* display_data ran, and no scheduled cycle has started
C16_Witness ==
    /\ w.owner = "main" /\ CycleOver /\ w.result = "fetch_empty"
    /\ sched = "Idle" /\ triggers = 0
    /\ mainPc = "done" /\ r.attempt = retries

\* the fetch of a scheduled cycle has not returned
FetchPending == w.owner = "job" /\ w.pc = "request"

\* C12: while the fetch of a scheduled cycle does not return, the cycle is
\* not over, the interval trigger still fires (the count of triggers only
\* grows, and grows again for as long as MaxTriggers lets a behaviour hold
\* one more), and display_data still runs to its end.
C12_HungFetchBlocksNothingElse ==
    /\ [](FetchPending => (~CycleOver /\ w.result = "running" /\ sched = "Running"))
    /\ [][triggers' \in {triggers, triggers + 1}]_vars
    /\ (FetchPending /\ triggers < MaxTriggers)
          ~> (triggers = MaxTriggers \/ ~FetchPending)
    /\ (FetchPending /\ mainPc = "display") ~> (mainPc = "done")

\* the trigger fired again during a pending fetch, and display_data ended
\* with its chart during that same fetch
C12_Witness ==
    /\ FetchPending
    /\ triggers > w.trig
    /\ mainPc = "done" /\ r.shown

\* an indicator column of df holds text
HasTextIndicator(df) ==
    \E i \in DOMAIN df.rows : \E j \in DOMAIN required_columns :
        df.rows[i][required_columns[j]].k = "str"

\* C17: when normalization raises on a fetched frame (an indicator holds
\* text), calculate_index returns the empty frame, to_sql is not called and
\* the table stays as it was when the cycle began.
C17_FailedAggregationWritesNothing ==
    (w.resp.kind = "ok" /\ ~IsEmpty(w.fetched) /\ HasTextIndicator(w.fetched))
        => /\ IsEmpty(w.df)
           /\ CycleOver /\ w.result = "calc_empty"
           /\ w.toSqlCalls = 0
           /\ table = w.tableAtStart

\* a scheduled cycle fetched a batch with a text value while the earlier
\* dataset was stored: the cycle is over and the dataset is still the table
C17_Witness ==
    /\ w.owner = "job" /\ CycleOver /\ w.result = "calc_empty"
    /\ HasTextIndicator(w.fetched)
    /\ table = PriorTable

\* C18: display_data makes at most retries attempts and none after one
\* that succeeded, sleeps after each failed attempt but the last, raises
\* nothing to __main__, and ends.
C18_DisplayTerminates ==
    /\ [](/\ Len(r.excs) + (IF r.shown THEN 1 ELSE 0) <= retries
          /\ r.attempt = Len(r.excs)
          /\ r.sleeps = (IF Len(r.excs) < retries THEN Len(r.excs) ELSE retries - 1)
          /\ (r.shown \/ Len(r.excs) = retries) <=> mainPc = "done"
          /\ (r.shown \/ Len(r.excs) > 0) => mainPc \in {"display", "done"})
    /\ [][mainPc = "done" => (r' = r /\ mainPc' = "done")]_vars
    /\ (mainPc = "display") ~> (mainPc = "done")

\* three attempts failed on a table that was never there: two sleeps, then
\* display_data returned without a chart
C18_Witness ==
    /\ mainPc = "done" /\ ~r.shown
    /\ r.excs = <<"TableNotFound", "TableNotFound", "TableNotFound">>
    /\ r.sleeps = retries - 1

\* C19: at most one call of update_data executes at any moment; a
\* scheduled call never runs beside the first, foreground call.
C19_SingleWriter ==
    /\ w.instances <= 1
    /\ w.instances = 1 <=> w.pc # "idle"
    /\ (w.pc # "idle" /\ w.owner = "job") => mainPc \in {"display", "done"}

\* the interval elapsed while a scheduled cycle was still writing: the
\* trigger fired and still one call executes
C19_Witness ==
    /\ w.owner = "job" /\ Writing
    /\ triggers > w.trig
    /\ w.instances = 1

\* C20: the table a cycle has saved carries the columns 'state' and
\* 'index' that display_data reads.
C20_SavedIsRenderable ==
    (CycleOver /\ w.result = "saved")
        => ("state" \in table.columns /\ "index" \in table.columns)

\* the exact sum of the six weights
RECURSIVE WeightTotal(_)
WeightTotal(i) ==
    IF i = 0 THEN Num(0) ELSE FracAdd(WeightTotal(i - 1), Weight(required_columns[i]))

\* C14: the six weights sum to exactly 1, and the index that the code
\* computes for six norms of [0, 1] lies in [0, 1].
C14_IndexInUnitInterval ==
    calc.done
        => /\ WeightTotal(Len(required_columns)) = Num(1)
           /\ FloatLeq(FloatZero, calc.index)
           /\ FloatLeq(calc.index, FloatOne)

====
